---- MODULE Spec2Model ----
(***************************************************************************)
(* csv2sql-go: the import command (src/import.go).  A driver reads the CSV *)
(* file in groups of Bulk records, builds one INSERT statement per group   *)
(* (parseBulkColumns), takes a permit from the buffered channel            *)
(* `available` and starts an insert goroutine; a connection controller     *)
(* goroutine receives the workers' completions on `callback`, counts them  *)
(* and puts the permit back.                                               *)
(*                                                                         *)
(* Strings are TLA+ strings; StrBytes gives the bytes of each string the   *)
(* model uses, so that the duplicate key is computed the way the code      *)
(* computes it: FNV-1a (64 bit) over strings.Join(entry, "").  A uint64 is *)
(* a tuple of 8 bytes, least significant first.  A statement is kept as    *)
(* the sequence of tokens that strings.Join(query, " ") joins.             *)
(* Go indexes from 0 and TLA+ from 1: positions stored in                  *)
(* IgnoreColumnsMap_ and compared with it are the 0-based positions of the *)
(* code.                                                                   *)
(*                                                                         *)
(* startLogger (import.go:259-268) only reads the two counters and prints  *)
(* them; it changes no state and has no action.  db.Prepare and stmt.Exec  *)
(* of one worker touch nothing the other goroutines use and are one step.  *)
(* log.Fatal and the return of Execute end the process: no goroutine takes *)
(* a step once pc is "fatal", "rejected" or "done".                        *)
(***************************************************************************)
EXTENDS Integers, Sequences, FiniteSets, TLC

VARIABLES
    c,                  \* the ImportCmd flags (import.go:20-35), fixed after Flags
    IgnoreColumnsMap_,  \* c.IgnoreColumnsMap_: the keys set to true (import.go:31,73,180)
    file,               \* the records of the CSV file still to come are file[rpos+1..]
    rpos,               \* number of lines the csv reader has consumed
    fieldsPerRecord,    \* csv.Reader.FieldsPerRecord (0 until the first record is read)
    pc,                 \* position of the main goroutine / state of the process
    err,                \* the variable err of Execute (import.go:98,109,116)
    readErr,            \* the err declared at import.go:153: first non-EOF error of the last group read
    records,            \* import.go:151
    isFirstRow,         \* import.go:147
    firstRowColumns,    \* import.go:148
    id,                 \* import.go:146
    wg,                 \* sync.WaitGroup counter (import.go:145)
    connections,        \* import.go:132
    insertions,         \* import.go:133
    available,          \* number of permits buffered in the channel (import.go:134)
    workers,            \* the insert goroutines started so far, by id
    ctl,                \* position of the connection controller goroutine
    drvConn,            \* value of connections loaded by the driver for `connections += 1` (0 when not in use)
    ctlConn,            \* value of connections loaded by the controller for `*connections -= 1` (0 when not in use)
    bulkQuery,          \* import.go:205
    bulkItems,          \* import.go:205
    reported            \* what import.go:213 has printed: <<>> before, <<n>> after

vars == <<c, IgnoreColumnsMap_, file, rpos, fieldsPerRecord, pc, err, readErr, records,
          isFirstRow, firstRowColumns, id, wg, connections, insertions, available,
          workers, ctl, drvConn, ctlConn, bulkQuery, bulkItems, reported>>

----------------------------------------------------------------------------
(* Bounds *)

MaxConcurrency == 2     \* --concurrency is drawn from -1..MaxConcurrency
MaxBulk == 2            \* --bulk is drawn from -1..MaxBulk in the pipeline
MaxBatch == 5           \* longest batch handed to parseBulkColumns on its own
MaxIgnore == 3           \* longest --ignore-columns list
MaxLines == 3           \* longest input file of the pipeline (header included)

----------------------------------------------------------------------------
(* Strings and the duplicate key *)

\* the UTF-8 bytes of the strings used as fields
StrBytes(s) ==
    CASE s = ""     -> <<>>
      [] s = "1"    -> <<49>>
      [] s = "2"    -> <<50>>
      [] s = "x"    -> <<120>>
      [] s = "y"    -> <<121>>
      [] s = "z"    -> <<122>>
      [] s = "xy"   -> <<120, 121>>
      [] s = "id"   -> <<105, 100>>
      [] s = "nm"   -> <<110, 109>>
      [] s = "name" -> <<110, 97, 109, 101>>
      [] s = "note" -> <<110, 111, 116, 101>>

RECURSIVE Join(_)
\* strings.Join(entry, ""), as bytes
Join(entry) ==
    IF entry = <<>> THEN <<>> ELSE StrBytes(Head(entry)) \o Join(Tail(entry))

Zero64 == <<0, 0, 0, 0, 0, 0, 0, 0>>

\* fnv1a.Init64 = 0xcbf29ce484222325 (offset basis), least significant byte first
Init64 == <<37, 35, 34, 132, 228, 156, 242, 203>>

RECURSIVE Xor8(_, _)
Xor8(a, b) ==
    IF a = 0 THEN b
    ELSE IF b = 0 THEN a
    ELSE (((a % 2) + (b % 2)) % 2) + 2 * Xor8(a \div 2, b \div 2)

RECURSIVE MulPrimeFrom(_, _, _)
\* h * 0x100000001b3 mod 2^64 = (h << 40) + h * 0x1b3, byte by byte with carry
MulPrimeFrom(h, i, carry) ==
    IF i > 8 THEN <<>>
    ELSE LET t == (h[i] * 435) + carry + (IF i > 5 THEN h[i - 5] ELSE 0)
         IN  <<t % 256>> \o MulPrimeFrom(h, i + 1, t \div 256)

RECURSIVE AddString64(_, _)
\* fnv1a.AddString64: h = (h ^ uint64(s[i])) * prime64 for every byte
AddString64(h, s) ==
    IF s = <<>> THEN h
    ELSE AddString64(MulPrimeFrom([h EXCEPT ![1] = Xor8(h[1], Head(s))], 1, 0), Tail(s))

HashString64(s) == AddString64(Init64, s)

----------------------------------------------------------------------------
(* Column filter of the first row (import.go:173-191) *)

IgnoreActive == c.IgnoreColumns_ /= <<>>          \* *c.IgnoreColumns != ""
RemapActive == DOMAIN c.RemapColumns_ /= {}       \* *c.RemapColumns != ""

\* the indexes wk (0-based) of the ignore list whose name is v
IgnoreMatches(v) == {wk \in 0..(Len(c.IgnoreColumns_) - 1) : c.IgnoreColumns_[wk + 1] = v}

\* a filter in which a remap key is never ignored
IsIgnoredUnlessRemapped(v) ==
    IgnoreActive /\ IgnoreMatches(v) /= {} /\ v \notin DOMAIN c.RemapColumns_

\* the inner loop at import.go:178-183 reaches `continue ColumnLoop` for v
IsIgnored(v) == IgnoreActive /\ IgnoreMatches(v) /= {}

MinOf(S) == CHOOSE m \in S : \A n \in S : m <= n

\* the key written at import.go:180 when the column at 0-based position
\* headerPos of the first row matches entry wk of the ignore list
IgnoreKey(wk, headerPos) == wk

RECURSIVE ColumnLoop(_, _, _)
\* import.go:174-191 from 0-based position j of the first row on:
\* acc = [columns, map] so far
ColumnLoop(row, j, acc) ==
    IF j >= Len(row) THEN acc
    ELSE LET v == row[j + 1] IN
         IF IsIgnored(v)
         THEN ColumnLoop(row, j + 1,
                  [acc EXCEPT !.map = @ \cup {IgnoreKey(MinOf(IgnoreMatches(v)), j)}])
         ELSE LET col == IF RemapActive /\ v \in DOMAIN c.RemapColumns_
                         THEN c.RemapColumns_[v] ELSE v
              IN  ColumnLoop(row, j + 1, [acc EXCEPT !.columns = Append(@, col)])

FilterColumns(row) == ColumnLoop(row, 0, [columns |-> <<>>, map |-> IgnoreColumnsMap_])

----------------------------------------------------------------------------
(* parseBulkColumns (import.go:289-353) *)

Table == "t"
InsertInto == "INSERT IGNORE INTO t ("   \* "INSERT IGNORE INTO " + *c.Table + " ("
ValuesKw == ") VALUES "

RECURSIVE ColumnTokens(_, _)
\* import.go:296-301
ColumnTokens(columns, i) ==
    IF i >= Len(columns) THEN <<>>
    ELSE <<columns[i + 1]>>
         \o (IF i /= Len(columns) - 1 THEN <<",">> ELSE <<>>)
         \o ColumnTokens(columns, i + 1)

\* import.go:309-312
EntryKey(entry) ==
    IF c.SquashAllDupsPerBulk \/ c.SquashConsecutiveDups
    THEN HashString64(Join(entry)) ELSE Zero64

SquashAllSkipNever(entryKey, bulkItemMap) == FALSE

\* import.go:314: the key is in bulkItemMap with value true
SquashAllSkip(entryKey, bulkItemMap) == entryKey \in bulkItemMap

\* import.go:322-324: lastEntryKey is assigned only while it is 0
NextLastEntryKey(entryKey, lastEntryKey) ==
    IF lastEntryKey = Zero64 THEN entryKey ELSE lastEntryKey

\* a test made after the assignment of import.go:323: the first entry is
\* compared with itself
SquashConsecutiveSkipAfterAssign(entryKey, lastEntryKey) ==
    entryKey = (IF lastEntryKey = Zero64 THEN entryKey ELSE lastEntryKey)

\* import.go:322,325: the else branch skips an entry equal to lastEntryKey
SquashConsecutiveSkip(entryKey, lastEntryKey) ==
    lastEntryKey /= Zero64 /\ entryKey = lastEntryKey

\* import.go:336-340
SkipPosition(j) == IgnoreActive /\ j \in IgnoreColumnsMap_

RECURSIVE EntryLoop(_, _, _)
\* import.go:335-346 from 0-based position j on: acc = [query, items]
EntryLoop(entry, j, acc) ==
    IF j >= Len(entry) THEN acc
    ELSE IF SkipPosition(j) THEN EntryLoop(entry, j + 1, acc)
    ELSE EntryLoop(entry, j + 1,
             [query |-> acc.query \o <<"?">>
                          \o (IF j /= Len(entry) - 1 THEN <<",">> ELSE <<>>),
              items |-> Append(acc.items, entry[j + 1])])

RECURSIVE BulkLoop(_, _, _)
\* import.go:304-348 from 0-based index i on:
\* st = [query, items, bulkItemMap, lastEntryKey]
BulkLoop(bulks, i, st) ==
    IF i >= Len(bulks) THEN st
    ELSE
      LET entry == bulks[i + 1]
          entryKey == EntryKey(entry)
          skipAll == c.SquashAllDupsPerBulk /\ SquashAllSkip(entryKey, st.bulkItemMap)
          map1 == IF c.SquashAllDupsPerBulk /\ ~skipAll
                  THEN st.bulkItemMap \cup {entryKey} ELSE st.bulkItemMap
          skipCons == c.SquashConsecutiveDups /\ SquashConsecutiveSkip(entryKey, st.lastEntryKey)
          last1 == IF c.SquashConsecutiveDups
                   THEN NextLastEntryKey(entryKey, st.lastEntryKey) ELSE st.lastEntryKey
      IN
      IF skipAll THEN BulkLoop(bulks, i + 1, st)
      ELSE IF skipCons
      THEN BulkLoop(bulks, i + 1, [st EXCEPT !.bulkItemMap = map1])
      ELSE
        LET q0 == st.query \o (IF i /= 0 THEN <<",">> ELSE <<>>) \o <<"(">>
            e == EntryLoop(entry, 0, [query |-> q0, items |-> st.items])
        IN  BulkLoop(bulks, i + 1,
                [query |-> e.query \o <<")">>, items |-> e.items,
                 bulkItemMap |-> map1, lastEntryKey |-> last1])

\* a builder whose bulkItemMap starts with the keys of the lines read before
\* this batch
parseBulkColumnsKeepingKeys(columns, bulks) ==
    LET before == {HashString64(Join(file[k].fields)) : k \in 1..(rpos - Len(bulks))}
        st == BulkLoop(bulks, 0,
                  [query |-> <<InsertInto>> \o ColumnTokens(columns, 0) \o <<ValuesKw>>,
                   items |-> <<>>, bulkItemMap |-> before, lastEntryKey |-> Zero64])
    IN  [query |-> st.query, items |-> st.items]

\* the pair (bulkQuery, bulkItems) returned at import.go:352
parseBulkColumns(columns, bulks) ==
    LET st == BulkLoop(bulks, 0,
                  [query |-> <<InsertInto>> \o ColumnTokens(columns, 0) \o <<ValuesKw>>,
                   items |-> <<>>, bulkItemMap |-> {}, lastEntryKey |-> Zero64])
    IN  [query |-> st.query, items |-> st.items]

----------------------------------------------------------------------------
(* Reading a statement *)

RECURSIVE CountTok(_, _)
CountTok(q, t) ==
    IF q = <<>> THEN 0
    ELSE (IF Head(q) = t THEN 1 ELSE 0) + CountTok(Tail(q), t)

NumGroups(q) == CountTok(q, "(")

RECURSIVE GroupSizesFrom(_, _, _)
\* the number of "?" of each value group, in order (cur < 0: outside a group)
GroupSizesFrom(q, i, cur) ==
    IF i > Len(q) THEN <<>>
    ELSE IF q[i] = "(" THEN GroupSizesFrom(q, i + 1, 0)
    ELSE IF q[i] = ")" THEN <<cur>> \o GroupSizesFrom(q, i + 1, 0 - 1)
    ELSE IF q[i] = "?" /\ cur >= 0 THEN GroupSizesFrom(q, i + 1, cur + 1)
    ELSE GroupSizesFrom(q, i + 1, cur)

GroupSizes(q) == GroupSizesFrom(q, 1, 0 - 1)

RECURSIVE Flatten(_)
Flatten(rows) == IF rows = <<>> THEN <<>> ELSE Head(rows) \o Flatten(Tail(rows))

----------------------------------------------------------------------------
(* The csv reader (encoding/csv, used at import.go:102,153) *)

\* A line of the file is [fields, malformed]: a malformed line makes Read
\* return the fields parsed before the error together with a parse error.
Line(fields) == [fields |-> fields, malformed |-> FALSE]
BadLine == [fields |-> <<>>, malformed |-> TRUE]

\* a reader that returns the lines of the file from the last to the first
ReadFromEnd(n, fpr) ==
    IF n >= Len(file) THEN [record |-> <<>>, err |-> "EOF", fpr |-> fpr]
    ELSE LET l == file[Len(file) - n] IN
         [record |-> l.fields,
          err |-> IF l.malformed THEN "ParseError"
                  ELSE IF fpr > 0 /\ Len(l.fields) /= fpr THEN "ErrFieldCount"
                  ELSE "nil",
          fpr |-> IF fpr = 0 THEN Len(l.fields) ELSE fpr]

\* reader.Read() with n lines consumed and FieldsPerRecord = fpr:
\* the record, the error and the new FieldsPerRecord
Read(n, fpr) ==
    IF n >= Len(file) THEN [record |-> <<>>, err |-> "EOF", fpr |-> fpr]
    ELSE LET l == file[n + 1] IN
         [record |-> l.fields,
          err |-> IF l.malformed THEN "ParseError"
                  ELSE IF fpr > 0 /\ Len(l.fields) /= fpr THEN "ErrFieldCount"
                  ELSE "nil",
          fpr |-> IF fpr = 0 THEN Len(l.fields) ELSE fpr]

\* import.go:154: the only error that ends the inner loop is io.EOF
ReadLoopStops(e) == e = "EOF"

RECURSIVE ReadLoop(_, _)
\* import.go:152-158 from iteration i on: st = [records, rpos, fpr, readErr]
ReadLoop(i, st) ==
    IF i >= c.Bulk THEN st
    ELSE LET r == Read(st.rpos, st.fpr) IN
         IF ReadLoopStops(r.err) THEN st
         ELSE ReadLoop(i + 1,
                  [records |-> Append(st.records, r.record),
                   rpos |-> st.rpos + 1,
                   fpr |-> r.fpr,
                   readErr |-> IF st.readErr = "nil" THEN r.err ELSE st.readErr])

----------------------------------------------------------------------------
(* The process *)

Exited == pc \in {"rejected", "fatal", "done"}

\* main.go:25-28 with ValidateFlags (import.go:51-91)
ValidateFlags ==
    /\ pc = "main"
    /\ pc' = IF c.Concurrency < 0 \/ c.Bulk < 0 THEN "rejected" ELSE "setup"
    /\ UNCHANGED <<c, IgnoreColumnsMap_, file, rpos, fieldsPerRecord, err, readErr, records,
                   isFirstRow, firstRowColumns, id, wg, connections, insertions, available,
                   workers, ctl, drvConn, ctlConn, bulkQuery, bulkItems, reported>>

\* import.go:98-148: open the file and the database (either may fail: log.Fatal),
\* fill `available` with Concurrency permits, start the controller
Setup ==
    /\ pc = "setup"
    /\ \E ok \in BOOLEAN :
         IF ok
         THEN /\ err' = "nil"
              /\ available' = c.Concurrency
              /\ ctl' = [pc |-> "recv", id |-> 0]
              /\ pc' = "read"
         ELSE /\ err' = "error"
              /\ pc' = "fatal"
              /\ UNCHANGED <<available, ctl>>
    /\ UNCHANGED <<c, IgnoreColumnsMap_, file, rpos, fieldsPerRecord, readErr, records,
                   isFirstRow, firstRowColumns, id, wg, connections, insertions,
                   workers, drvConn, ctlConn, bulkQuery, bulkItems, reported>>

\* import.go:160: the test reads the err of Execute, not the err of line 153
ReadFailed == err /= "nil" /\ err /= "EOF"

\* import.go:151-166: read up to Bulk records, then the two tests
ReadBatch ==
    /\ pc = "read"
    /\ LET st == ReadLoop(0, [records |-> <<>>, rpos |-> rpos,
                              fpr |-> fieldsPerRecord, readErr |-> "nil"])
       IN  /\ records' = st.records
           /\ rpos' = st.rpos
           /\ fieldsPerRecord' = st.fpr
           /\ readErr' = st.readErr
           /\ pc' = IF ReadFailed THEN "fatal"
                    ELSE IF Len(st.records) = 0 THEN "wait"
                    ELSE IF isFirstRow THEN "header"
                    ELSE "acquire"
    /\ UNCHANGED <<c, IgnoreColumnsMap_, file, err, isFirstRow, firstRowColumns, id, wg,
                   connections, insertions, available, workers, ctl, drvConn, ctlConn,
                   bulkQuery, bulkItems, reported>>

\* import.go:168-197
FirstRow ==
    /\ pc = "header"
    /\ LET f == FilterColumns(records[1])
       IN  /\ firstRowColumns' = f.columns
           /\ IgnoreColumnsMap_' = f.map
    /\ isFirstRow' = FALSE
    /\ pc' = "acquire"
    /\ UNCHANGED <<c, file, rpos, fieldsPerRecord, err, readErr, records, id, wg,
                   connections, insertions, available, workers, ctl, drvConn, ctlConn,
                   bulkQuery, bulkItems, reported>>

PermitReadyAlways(n) == TRUE

\* import.go:199: the receive from `available` waits until a permit is buffered
PermitReady(n) == n > 0

\* import.go:199: receive a permit from `available`
Acquire ==
    /\ pc = "acquire"
    /\ PermitReady(available)
    /\ available' = available - 1
    /\ pc' = "conn_load"
    /\ UNCHANGED <<c, IgnoreColumnsMap_, file, rpos, fieldsPerRecord, err, readErr, records,
                   isFirstRow, firstRowColumns, id, wg, connections, insertions,
                   workers, ctl, drvConn, ctlConn, bulkQuery, bulkItems, reported>>

\* import.go:201 `connections += 1` is an unsynchronised load and store
DriverConnLoad ==
    /\ pc = "conn_load"
    /\ drvConn' = connections
    /\ pc' = "conn_store"
    /\ UNCHANGED <<c, IgnoreColumnsMap_, file, rpos, fieldsPerRecord, err, readErr, records,
                   isFirstRow, firstRowColumns, id, wg, connections, insertions, available,
                   workers, ctl, ctlConn, bulkQuery, bulkItems, reported>>

DriverConnStore ==
    /\ pc = "conn_store"
    /\ connections' = drvConn + 1
    /\ drvConn' = 0
    /\ pc' = "spawn"
    /\ UNCHANGED <<c, IgnoreColumnsMap_, file, rpos, fieldsPerRecord, err, readErr, records,
                   isFirstRow, firstRowColumns, id, wg, insertions, available,
                   workers, ctl, ctlConn, bulkQuery, bulkItems, reported>>

\* import.go:202-206: the goroutine started for this group, at its first statement;
\* counted and released are history: how often the controller has counted
\* this worker's completion and put its permit back
Spawn ==
    /\ pc = "spawn"
    /\ id' = id + 1
    /\ wg' = wg + 1
    /\ LET b == parseBulkColumns(firstRowColumns, records)
       IN  /\ bulkQuery' = b.query
           /\ bulkItems' = b.items
           /\ workers' = [w \in DOMAIN workers \cup {id + 1} |->
                            IF w = id + 1
                            THEN [pc |-> "insert", query |-> b.query, args |-> b.items,
                                  failed |-> FALSE, counted |-> 0, released |-> 0]
                            ELSE workers[w]]
    /\ pc' = "read"
    /\ UNCHANGED <<c, IgnoreColumnsMap_, file, rpos, fieldsPerRecord, err, readErr, records,
                   isFirstRow, firstRowColumns, connections, insertions, available,
                   ctl, drvConn, ctlConn, reported>>

\* import.go:210: wg.Wait()
Wait ==
    /\ pc = "wait"
    /\ wg = 0
    /\ pc' = "report"
    /\ UNCHANGED <<c, IgnoreColumnsMap_, file, rpos, fieldsPerRecord, err, readErr, records,
                   isFirstRow, firstRowColumns, id, wg, connections, insertions, available,
                   workers, ctl, drvConn, ctlConn, bulkQuery, bulkItems, reported>>

\* import.go:212-215: print insertions, return; main returns and the process ends
Report ==
    /\ pc = "report"
    /\ reported' = <<insertions>>
    /\ pc' = "done"
    /\ UNCHANGED <<c, IgnoreColumnsMap_, file, rpos, fieldsPerRecord, err, readErr, records,
                   isFirstRow, firstRowColumns, id, wg, connections, insertions, available,
                   workers, ctl, drvConn, ctlConn, bulkQuery, bulkItems>>

----------------------------------------------------------------------------
(* The insert goroutines (import.go:218-240) *)

WorkerUnch == <<c, IgnoreColumnsMap_, file, rpos, fieldsPerRecord, err, readErr, records,
                isFirstRow, firstRowColumns, id, connections, insertions, available,
                drvConn, ctlConn, bulkQuery, bulkItems, reported>>

AfterExecReturnsOnError(failed) == IF failed THEN "finished" ELSE "send"

\* where the goroutine goes after stmt.Exec, whether or not it returned an error
AfterExec(failed) == "send"

\* import.go:226-235: db.Prepare, whose failure is log.Fatal and ends the
\* process, then stmt.Exec, whose error is logged and nothing else
Insert(w) ==
    /\ ~Exited
    /\ workers[w].pc = "insert"
    /\ \E prepared \in BOOLEAN, failed \in BOOLEAN :
         IF prepared
         THEN /\ workers' = [workers EXCEPT ![w].failed = failed,
                                            ![w].pc = AfterExec(failed)]
              /\ pc' = pc
         ELSE /\ pc' = "fatal"
              /\ workers' = workers
    /\ UNCHANGED <<wg, ctl>>
    /\ UNCHANGED WorkerUnch

\* import.go:238 with import.go:248: callback is unbuffered, so the send of the
\* worker and the receive of the controller are one step
Callback(w) ==
    /\ ~Exited
    /\ workers[w].pc = "send"
    /\ ctl.pc = "recv"
    /\ workers' = [workers EXCEPT ![w].pc = "wgdone"]
    /\ ctl' = [pc |-> "insertions", id |-> w]
    /\ UNCHANGED <<pc, wg>>
    /\ UNCHANGED WorkerUnch

\* import.go:239: wg.Done()
Done(w) ==
    /\ ~Exited
    /\ workers[w].pc = "wgdone"
    /\ wg' = wg - 1
    /\ workers' = [workers EXCEPT ![w].pc = "finished"]
    /\ UNCHANGED <<pc, ctl>>
    /\ UNCHANGED WorkerUnch

----------------------------------------------------------------------------
(* The connection controller (import.go:243-256); ctl.id is the value *)
(* received from callback                                             *)

CtlUnch == <<c, IgnoreColumnsMap_, file, rpos, fieldsPerRecord, pc, err, readErr, records,
             isFirstRow, firstRowColumns, id, wg, drvConn, bulkQuery, bulkItems, reported>>

\* import.go:250
CtlInsertions ==
    /\ ~Exited
    /\ ctl.pc = "insertions"
    /\ insertions' = insertions + 1
    /\ workers' = [workers EXCEPT ![ctl.id].counted = @ + 1]
    /\ ctl' = [ctl EXCEPT !.pc = "conn_load"]
    /\ UNCHANGED <<connections, available, ctlConn>>
    /\ UNCHANGED CtlUnch

\* import.go:251 `*connections -= 1` is an unsynchronised load and store
CtlConnLoad ==
    /\ ~Exited
    /\ ctl.pc = "conn_load"
    /\ ctlConn' = connections
    /\ ctl' = [ctl EXCEPT !.pc = "conn_store"]
    /\ UNCHANGED <<connections, insertions, available, workers>>
    /\ UNCHANGED CtlUnch

CtlConnStore ==
    /\ ~Exited
    /\ ctl.pc = "conn_store"
    /\ connections' = ctlConn - 1
    /\ ctlConn' = 0
    /\ ctl' = [ctl EXCEPT !.pc = "release"]
    /\ UNCHANGED <<insertions, available, workers>>
    /\ UNCHANGED CtlUnch

\* a controller that puts two permits back for one completion
PermitsBackTwice == 1 + 1

\* the number of permits one pass of the controller puts back
PermitsBack == 1

\* import.go:253: send on the buffered channel (capacity Concurrency)
CtlRelease ==
    /\ ~Exited
    /\ ctl.pc = "release"
    /\ available + PermitsBack <= c.Concurrency
    /\ available' = available + PermitsBack
    /\ workers' = [workers EXCEPT ![ctl.id].released = @ + 1]
    /\ ctl' = [ctl EXCEPT !.pc = "recv"]
    /\ UNCHANGED <<connections, insertions, ctlConn>>
    /\ UNCHANGED CtlUnch

----------------------------------------------------------------------------
(* Inputs *)

RECURSIVE SeqsUpTo(_, _)
\* the sequences over S of length <= n
SeqsUpTo(S, n) ==
    IF n = 0 THEN {<<>>}
    ELSE LET shorter == SeqsUpTo(S, n - 1)
         IN  shorter \cup {Append(q, x) : q \in {r \in shorter : Len(r) = n - 1}, x \in S}

Header == <<"id", "name">>

\* the k-th data line of a well-formed file: [1,x], [2,y], [1,x], ...
GoodLine(k) == IF k % 2 = 1 THEN Line(<<"1", "x">>) ELSE Line(<<"2", "y">>)

\* a line with one field too few, and a line the reader cannot parse
Damaged == {Line(<<"1">>), BadLine}

GoodFile(n) == <<Line(Header)>> \o [k \in 1..n |-> GoodLine(k)]

\* the files: the header line, then up to MaxLines - 1 data lines of which
\* at most one is damaged
Files ==
    {GoodFile(n) : n \in 0..(MaxLines - 1)}
    \cup UNION {{[GoodFile(n) EXCEPT ![k + 1] = d] : k \in 1..n, d \in Damaged} :
                 n \in 1..(MaxLines - 1)}

NoRemap == [x \in {} |-> ""]

Flags == [Concurrency : -1..MaxConcurrency,
          Bulk : -1..MaxBulk,
          SquashConsecutiveDups : {FALSE},
          SquashAllDupsPerBulk : {FALSE},
          IgnoreColumns_ : {<<>>},
          RemapColumns_ : {NoRemap},
          IgnoreErrors : BOOLEAN]

\* the state when main starts, for given flags and file
Start(flags, f) ==
    /\ c = flags
    /\ file = f
    /\ IgnoreColumnsMap_ = {}
    /\ rpos = 0
    /\ fieldsPerRecord = 0
    /\ err = "nil"
    /\ readErr = "nil"
    /\ records = <<>>
    /\ isFirstRow = TRUE
    /\ firstRowColumns = <<>>
    /\ id = 1
    /\ wg = 0
    /\ connections = 0
    /\ insertions = 0
    /\ available = 0
    /\ workers = [w \in {} |-> 0]
    /\ ctl = [pc |-> "off", id |-> 0]
    /\ drvConn = 0
    /\ ctlConn = 0
    /\ bulkQuery = <<>>
    /\ bulkItems = <<>>
    /\ reported = <<>>

HasDamage(f) == \E k \in 1..Len(f) : f[k] \in Damaged

\* A well-formed file is run under every concurrency and group size; a file
\* with a damaged line is run by one worker at a time, with and without
\* --ignore-errors
Init ==
    /\ pc = "main"
    /\ \E flags \in Flags, f \in Files :
         /\ flags.IgnoreErrors => HasDamage(f)
         /\ HasDamage(f) => flags.Concurrency = 1
         /\ Start(flags, f)

Next ==
    \/ ValidateFlags
    \/ Setup
    \/ ReadBatch
    \/ FirstRow
    \/ Acquire
    \/ DriverConnLoad
    \/ DriverConnStore
    \/ Spawn
    \/ Wait
    \/ Report
    \/ \E w \in DOMAIN workers : Insert(w)
    \/ \E w \in DOMAIN workers : Callback(w)
    \/ \E w \in DOMAIN workers : Done(w)
    \/ CtlInsertions
    \/ CtlConnLoad
    \/ CtlConnStore
    \/ CtlRelease

Spec == Init /\ [][Next]_vars

\* the runs with at least one permit and a batch size of at least one, on
\* the files that are not of the greatest length
InitLive == Init /\ c.Concurrency >= 1 /\ c.Bulk >= 1 /\ Len(file) < MaxLines

\* The Go scheduler runs every goroutine that can take a step: a goroutine
\* that stays runnable, or a channel operation that stays ready, is
\* eventually executed. Each such condition on one goroutine implies that
\* the program does not stand still while some step of Next is possible.
SpecLive == InitLive /\ [][Next]_vars /\ WF_vars(Next)

\* The pipeline with the squash flags: one worker at a time and batches of
\* two rows or more, on the files of the header line and up to MaxLines data
\* lines drawn from two rows, so that equal rows fall within a batch and
\* across consecutive batches
SquashRows == {Line(<<"1", "x">>), Line(<<"2", "y">>)}

SquashFiles == {<<Line(Header)>> \o q : q \in SeqsUpTo(SquashRows, MaxLines)}

SquashFlags == [Concurrency : {1},
                Bulk : 2..MaxBulk,
                SquashConsecutiveDups : BOOLEAN,
                SquashAllDupsPerBulk : BOOLEAN,
                IgnoreColumns_ : {<<>>},
                RemapColumns_ : {NoRemap},
                IgnoreErrors : {FALSE}]

InitSquash ==
    /\ pc = "main"
    /\ \E flags \in SquashFlags, f \in SquashFiles : Start(flags, f)

SpecSquash == InitSquash /\ [][Next]_vars

----------------------------------------------------------------------------
(* The column filter and parseBulkColumns on their own: a header and flags *)
(* are drawn, the filter of import.go:173-191 is applied to the header,    *)
(* then parseBulkColumns to a batch of rows of the header's width          *)

Headers == {<<"id", "name">>, <<"id", "name", "note">>, <<"id", "nm">>}

\* rows of each width; <<"x", "y">> and <<"xy", "">> are different rows with
\* the same strings.Join(entry, "")
RowsOf(width) ==
    IF width = 2
    THEN {<<"1", "x">>, <<"2", "y">>, <<"x", "y">>, <<"xy", "">>}
    ELSE {<<"1", "x", "z">>, <<"2", "y", "z">>}

IgnoreNames == {"id", "note"}

\* --remap-columns nm=name as ValidateFlags stores it (import.go:79-89)
NmToName == [x \in {"nm"} |-> "name"]

\* the ignore lists drawn together with the remap table: at most one name,
\* which may be the remap key
RemapIgnores == {<<>>, <<"id">>, <<"nm">>}

BuildFlags == [Concurrency : {1},
               Bulk : {MaxBatch},
               SquashConsecutiveDups : BOOLEAN,
               SquashAllDupsPerBulk : BOOLEAN,
               IgnoreColumns_ : SeqsUpTo(IgnoreNames, MaxIgnore) \cup RemapIgnores,
               RemapColumns_ : {NoRemap, NmToName},
               IgnoreErrors : {FALSE}]

\* the squash flags are drawn with an empty ignore list, the ignore lists
\* without squashing; the remap table is drawn with the header id,nm and
\* the ignore lists of RemapIgnores
InitBuild ==
    /\ pc = "filter"
    /\ \E flags \in BuildFlags, h \in Headers :
         /\ flags.IgnoreColumns_ /= <<>>
              => ~flags.SquashConsecutiveDups /\ ~flags.SquashAllDupsPerBulk
         /\ (flags.RemapColumns_ /= NoRemap) <=> (h = <<"id", "nm">>)
         /\ flags.RemapColumns_ /= NoRemap => flags.IgnoreColumns_ \in RemapIgnores
         /\ flags.RemapColumns_ = NoRemap
              => flags.IgnoreColumns_ \in SeqsUpTo(IgnoreNames, MaxIgnore)
         /\ Start(flags, <<Line(h)>>)

BuildUnch == <<c, file, rpos, fieldsPerRecord, err, readErr, isFirstRow, id, wg,
               connections, insertions, available, workers, ctl, drvConn, ctlConn,
               reported>>

\* import.go:173-195 applied to the header
ApplyFilterColumns ==
    /\ pc = "filter"
    /\ LET f == FilterColumns(file[1].fields)
       IN  /\ firstRowColumns' = f.columns
           /\ IgnoreColumnsMap_' = f.map
    /\ pc' = "parse"
    /\ UNCHANGED <<records, bulkQuery, bulkItems>>
    /\ UNCHANGED BuildUnch

\* import.go:205 applied to a batch
ApplyParseBulkColumns ==
    /\ pc = "parse"
    /\ \E bulks \in SeqsUpTo(RowsOf(Len(file[1].fields)), MaxBatch) :
         /\ bulks /= <<>>
         /\ records' = bulks
         /\ LET b == parseBulkColumns(firstRowColumns, bulks)
            IN  /\ bulkQuery' = b.query
                /\ bulkItems' = b.items
    /\ pc' = "parsed"
    /\ UNCHANGED <<firstRowColumns, IgnoreColumnsMap_>>
    /\ UNCHANGED BuildUnch

NextBuild ==
    \/ ApplyFilterColumns
    \/ ApplyParseBulkColumns

SpecBuild == InitBuild /\ [][NextBuild]_vars

----------------------------------------------------------------------------
(* Reference definitions used by the properties *)

Range(q) == {q[i] : i \in 1..Len(q)}

\* the Duplicate Key of a row
KeyOf(row) == HashString64(Join(row))

RECURSIVE SelectRows(_, _, _)
\* the rows of bulks at the (1-based) indexes in K, in order, from index i on
SelectRows(bulks, K, i) ==
    IF i > Len(bulks) THEN <<>>
    ELSE (IF i \in K THEN <<bulks[i]>> ELSE <<>>) \o SelectRows(bulks, K, i + 1)

\* indexes of the first occurrence of each distinct row
FirstOfRow(bulks) == {i \in 1..Len(bulks) : \A j \in 1..(i - 1) : bulks[j] /= bulks[i]}

\* indexes of the first occurrence of each distinct Duplicate Key
FirstOfKey(bulks) ==
    {i \in 1..Len(bulks) : \A j \in 1..(i - 1) : KeyOf(bulks[j]) /= KeyOf(bulks[i])}

RECURSIVE DropAdjacent(_, _, _)
\* bulks from index i on without the rows whose key equals the key of the
\* last row kept (kept = <<>> when none was kept yet, else <<key>>)
DropAdjacent(bulks, i, kept) ==
    IF i > Len(bulks) THEN <<>>
    ELSE IF kept /= <<>> /\ KeyOf(bulks[i]) = kept[1]
    THEN DropAdjacent(bulks, i + 1, kept)
    ELSE <<bulks[i]>> \o DropAdjacent(bulks, i + 1, <<KeyOf(bulks[i])>>)

\* the rows the dedup filter of import.go:309-330 lets through
Survivors(bulks) ==
    IF c.SquashAllDupsPerBulk THEN FirstOfKey(bulks)
    ELSE IF c.SquashConsecutiveDups
    THEN {i \in 1..Len(bulks) : i = 1 \/ KeyOf(bulks[i]) /= KeyOf(bulks[1])}
    ELSE 1..Len(bulks)

\* 0-based positions, in the raw header h, of the columns named in the ignore list
HeaderDrop(h) == {j \in 0..(Len(h) - 1) : h[j + 1] \in Range(c.IgnoreColumns_)}

RECURSIVE Omit(_, _, _)
\* row without the fields at the 0-based positions in D, from position j on
Omit(row, D, j) ==
    IF j >= Len(row) THEN <<>>
    ELSE (IF j \in D THEN <<>> ELSE <<row[j + 1]>>) \o Omit(row, D, j + 1)

RECURSIVE OmitAll(_, _)
OmitAll(rows, D) ==
    IF rows = <<>> THEN <<>> ELSE Omit(Head(rows), D, 0) \o OmitAll(Tail(rows), D)

Started == pc \notin {"main", "setup", "rejected"}

\* permits taken from `available` whose completion the controller has not
\* yet received: the workers before their send has been received, and the
\* permit the driver has received for the worker it is about to start
Held ==
    Cardinality({w \in DOMAIN workers : workers[w].pc \in {"insert", "send"}})
    + (IF pc \in {"conn_load", "conn_store", "spawn"} THEN 1 ELSE 0)

----------------------------------------------------------------------------
(* Properties *)

\* C1: at most Concurrency insert workers hold a permit (taken from
\* `available`, completion not yet received on `callback`) in every
\* reachable state, also when there are more batches than permits.
C1_HeldAtMostConcurrency == Started => Held <= c.Concurrency

\* C1 witness: both permits are held and the driver waits for one for a further batch
C1_Witness ==
    /\ c.Concurrency = 2
    /\ pc = "acquire"
    /\ available = 0
    /\ Cardinality({w \in DOMAIN workers : workers[w].pc \in {"insert", "send"}}) = 2

\* C2: the number printed after wg.Wait() equals the number of batches
\* handed to insert workers.
C2_ReportEqualsDispatched ==
    pc = "done" => reported = <<Cardinality(DOMAIN workers)>>

\* C3: header id,name, rows [1,x] and [2,y], batch size 2, concurrency 1, no
\* squash/ignore/remap: every statement dispatched has two value groups and
\* the arguments [1,x,2,y], and at the end one statement was dispatched and
\* one completed batch is reported.
C3_EndToEnd ==
    (c.Bulk = 2 /\ c.Concurrency = 1 /\ file = GoodFile(2))
    => /\ \A w \in DOMAIN workers :
            /\ NumGroups(workers[w].query) = 2
            /\ workers[w].args = <<"1", "x", "2", "y">>
       /\ pc = "done" => Cardinality(DOMAIN workers) = 1 /\ reported = <<1>>

\* C4: the drop set is the set of raw-header positions of the ignored
\* columns, the Effective Header is the header without them, and every
\* row's arguments are its fields without exactly those positions.
C4_DropSetIsHeaderPositions ==
    pc \in {"parse", "parsed"}
    => /\ IgnoreColumnsMap_ = HeaderDrop(file[1].fields)
       /\ firstRowColumns = Omit(file[1].fields, HeaderDrop(file[1].fields), 0)
       /\ pc = "parsed" => bulkItems = OmitAll(records, HeaderDrop(file[1].fields))

\* C5: with squash-consecutive alone, a row is dropped iff its Duplicate
\* Key equals the key of the immediately preceding row that was not dropped.
C5_SquashConsecutive ==
    (pc = "parsed" /\ c.SquashConsecutiveDups /\ ~c.SquashAllDupsPerBulk)
    => bulkItems = Flatten(DropAdjacent(records, 1, <<>>))

\* C6 as stated: with squash-all-per-batch, the rows that contribute value
\* groups are the first occurrences of each distinct row, in order.
C6_FirstOccurrencesOfRows ==
    (pc = "parsed" /\ c.SquashAllDupsPerBulk)
    => /\ bulkItems = Flatten(SelectRows(records, FirstOfRow(records), 1))
       /\ NumGroups(bulkQuery) = Cardinality(FirstOfRow(records))

\* C6 as amended: with squash-all-per-batch, the rows that contribute value
\* groups are the first occurrences of each distinct Duplicate Key (the
\* hash of the row's fields joined without a separator), in order.
C6_FirstOccurrencesOfKeys ==
    (pc = "parsed" /\ c.SquashAllDupsPerBulk)
    => /\ bulkItems = Flatten(SelectRows(records, FirstOfKey(records), 1))
       /\ NumGroups(bulkQuery) = Cardinality(FirstOfKey(records))

\* C6 witness: the batch [A,B,A,C,B] has been built into [A,B,C]
C6_Witness ==
    /\ pc = "parsed"
    /\ c.SquashAllDupsPerBulk
    /\ records = <<(<<"1", "x">>), (<<"2", "y">>), (<<"1", "x">>),
                   (<<"x", "y">>), (<<"2", "y">>)>>
    /\ bulkItems = <<"1", "x", "2", "y", "x", "y">>
    /\ NumGroups(bulkQuery) = 3

\* C7: the statement has one value group per row surviving the dedup
\* filter, every group has (raw columns - dropped columns) placeholders, and
\* the argument list has groups x that many values.
C7_GroupShape ==
    pc = "parsed"
    => LET n == Len(firstRowColumns)   \* raw columns less those left out of the header
       IN  /\ NumGroups(bulkQuery) = Cardinality(Survivors(records))
           /\ \A k \in 1..Len(GroupSizes(bulkQuery)) : GroupSizes(bulkQuery)[k] = n
           /\ Len(bulkItems) = NumGroups(bulkQuery) * n

\* a worker whose completion the controller has received and finished
\* accounting for
Accounted(w) ==
    /\ workers[w].pc \in {"wgdone", "finished"}
    /\ ~(ctl.id = w /\ ctl.pc /= "recv")

C8_State ==
    /\ \A w \in DOMAIN workers :
         workers[w].failed
         => /\ workers[w].pc \in {"send", "wgdone", "finished"}
            /\ workers[w].counted <= 1
            /\ workers[w].released <= 1
            /\ workers[w].released <= workers[w].counted
            /\ workers[w].pc = "send" => workers[w].counted = 0
            /\ Accounted(w) => workers[w].counted = 1 /\ workers[w].released = 1
    /\ Started => wg = Cardinality({w \in DOMAIN workers : workers[w].pc /= "finished"})

C8_Step ==
    \A w \in DOMAIN workers :
        (w \in DOMAIN workers' /\ ~workers[w].failed /\ workers'[w].failed)
        => UNCHANGED <<pc, err, readErr, records, rpos, id, wg, available, insertions>>

C9_ReadErrorIsFatal == readErr /= "nil" => pc = "fatal"

\* C10: with or without --ignore-errors, no dispatched value group has a
\* number of placeholders other than the Effective Header's column count
\* (no ignore list is set in these runs, so only a row of the wrong width
\* can make one).
C10_NoMisalignedGroup ==
    \A w \in DOMAIN workers :
        \A k \in 1..Len(GroupSizes(workers[w].query)) :
            GroupSizes(workers[w].query)[k] = Len(firstRowColumns)

\* the raw header with the columns named in the ignore list removed and the
\* remaining remap keys replaced by their mapped name, from position j on
RECURSIVE EffectiveHeader(_, _)
EffectiveHeader(h, j) ==
    IF j > Len(h) THEN <<>>
    ELSE (IF h[j] \in Range(c.IgnoreColumns_) THEN <<>>
          ELSE IF h[j] \in DOMAIN c.RemapColumns_ THEN <<c.RemapColumns_[h[j]]>>
          ELSE <<h[j]>>)
         \o EffectiveHeader(h, j + 1)

\* the value positions left out of every row, written without the remap
\* table: the first index in the ignore list of each ignored header name
DropKeys(h) ==
    {wk \in 0..(Len(c.IgnoreColumns_) - 1) :
        /\ c.IgnoreColumns_[wk + 1] \in Range(h)
        /\ \A k \in 0..(wk - 1) : c.IgnoreColumns_[k + 1] /= c.IgnoreColumns_[wk + 1]}

\* C11: the Effective Header is the raw header, left to right, without the
\* columns named in the ignore list and with every remaining remap key
\* replaced by its mapped name (a column in both lists is removed), and the
\* argument values are the rows' own fields, the same with or without the
\* remap table.
C11_EffectiveHeader ==
    /\ pc \in {"parse", "parsed"}
         => firstRowColumns = EffectiveHeader(file[1].fields, 1)
    /\ pc = "parsed"
         => bulkItems = OmitAll(SelectRows(records, Survivors(records), 1),
                                DropKeys(file[1].fields))

\* C11 witness: header id,nm with remap nm=name gave the header id,name and
\* the row [1,x] its own values
C11_Witness ==
    /\ pc = "parsed"
    /\ c.RemapColumns_ = NmToName
    /\ c.IgnoreColumns_ = <<>>
    /\ file[1].fields = <<"id", "nm">>
    /\ firstRowColumns = <<"id", "name">>
    /\ records = <<(<<"1", "x">>)>>
    /\ bulkItems = <<"1", "x">>

\* C11 witness: the column nm, named in the ignore list and in the remap
\* table, was removed
C11_WitnessBoth ==
    /\ pc = "parsed"
    /\ c.RemapColumns_ = NmToName
    /\ c.IgnoreColumns_ = <<"nm">>
    /\ firstRowColumns = <<"id">>

\* C12: ValidateFlags returns an error for a concurrency or a batch size of
\* zero or less, so Execute is entered only with Concurrency > 0 and Bulk > 0.
C12_ExecuteOnlyWithPositiveFlags ==
    pc \notin {"main", "rejected"} => c.Concurrency > 0 /\ c.Bulk > 0

\* the ids insert workers can have: the first is 2 (import.go:133,202), and
\* there is at most one batch per line of the file
WorkerIds == 2..(MaxLines + 1)

\* worker w is at `callback <- id` and its send has not been received
Sending(w) == w \in DOMAIN workers /\ workers[w].pc = "send"

\* C13: with Concurrency >= 1 and Bulk >= 1, unless a prepare or the setup
\* fails (log.Fatal), the driver eventually passes wg.Wait() and prints the
\* summary, and by then the driver is not at `<-available` and no worker is
\* left at `callback <- id`.
C13_Terminates ==
    /\ <>(pc = "done" \/ pc = "fatal")
    /\ [](pc = "done" => reported /= <<>> /\ \A w \in WorkerIds : ~Sending(w))

\* C13 witness: with one permit, two batches of which one failed, the
\* summary has been printed
C13_Witness ==
    /\ pc = "done"
    /\ c.Concurrency = 1
    /\ Cardinality(DOMAIN workers) = 2
    /\ \E w \in DOMAIN workers : workers[w].failed
    /\ reported /= <<>>

\* the number of workers for which the controller has done step f
\* ("counted": `*insertions += 1`, "released": `available <- true`)
RECURSIVE SumOver(_, _)
SumOver(W, f) ==
    IF W = {} THEN 0
    ELSE LET w == CHOOSE x \in W : TRUE
         IN  workers[w][f] + SumOver(W \ {w}, f)

\* the `connections += 1` the driver has completed, and the
\* `*connections -= 1` the controller has completed
Increments == Cardinality(DOMAIN workers) + (IF pc = "spawn" THEN 1 ELSE 0)
Decrements == SumOver(DOMAIN workers, "released") + (IF ctl.pc = "release" THEN 1 ELSE 0)

\* C14: `connections` and `insertions` are updated by one goroutine only, so
\* no update to either is lost: whenever no update of `connections` is in
\* progress it equals the increments made minus the decrements made, and
\* `insertions` equals the number of completions counted.
C14_NoLostUpdate ==
    /\ insertions = SumOver(DOMAIN workers, "counted")
    /\ (pc \notin {"conn_load", "conn_store", "fatal"}
        /\ ctl.pc \notin {"conn_load", "conn_store"})
         => connections = Increments - Decrements

\* the fields of the lines lo..hi of the file, one after the other
RECURSIVE FieldsOfLines(_, _)
FieldsOfLines(lo, hi) ==
    IF lo > hi THEN <<>> ELSE file[lo].fields \o FieldsOfLines(lo + 1, hi)

\* the arguments of the k-th group of Bulk lines of the file
MinInt(a, b) == IF a <= b THEN a ELSE b
FileBatchArgs(k) ==
    FieldsOfLines(((k - 1) * c.Bulk) + 1, MinInt(k * c.Bulk, Len(file)))

\* C15: the k-th batch of the input is the k-th worker started, and the ids
\* are 2, 3, ... in that order (no column is ignored and no row squashed in
\* these runs, so a worker's arguments are the fields of its batch).
C15_DispatchInInputOrder ==
    Started =>
      /\ DOMAIN workers = 2..(Cardinality(DOMAIN workers) + 1)
      /\ id = Cardinality(DOMAIN workers) + 1
      /\ \A w \in DOMAIN workers : workers[w].args = FileBatchArgs(w - 1)

\* C15 witness: with two permits, the completion of a batch dispatched later
\* has been counted and that of a batch dispatched earlier has not
C15_Witness ==
    /\ c.Concurrency = 2
    /\ \E w, v \in DOMAIN workers :
         /\ w < v
         /\ workers[v].counted = 1
         /\ workers[w].counted = 0
         /\ workers[v].args = FileBatchArgs(v - 1)
         /\ workers[w].args = FileBatchArgs(w - 1)

\* the batches read so far: those handed to a worker and the one the driver
\* has read and not yet handed over
BatchesRead ==
    Cardinality(DOMAIN workers)
    + (IF pc \in {"header", "acquire", "conn_load", "conn_store", "spawn"} THEN 1 ELSE 0)

BatchesAccounted == Cardinality({w \in DOMAIN workers : Accounted(w)})

\* C16: the driver reads one batch and then waits for a permit before it
\* reads on: the read position is that of the batches read, and the batches
\* read are at most Concurrency + 1 more than the batches whose completion
\* the controller has accounted for.
C16_BackPressure ==
    Started =>
      /\ pc /= "fatal" => rpos = MinInt(BatchesRead * c.Bulk, Len(file))
      /\ BatchesRead - BatchesAccounted <= c.Concurrency + 1

\* C16 witness: two permits are held by unfinished workers and the driver
\* waits for a permit with a third batch in hand
C16_Witness ==
    /\ c.Concurrency = 2
    /\ pc = "acquire"
    /\ available = 0
    /\ BatchesRead = 3
    /\ BatchesAccounted = 0

\* the rows of the k-th group of Bulk lines of the file
BatchRows(k) ==
    LET lo == ((k - 1) * c.Bulk) + 1
        hi == MinInt(k * c.Bulk, Len(file))
    IN  [i \in 1..(hi - lo + 1) |-> file[lo + i - 1].fields]

\* C17: which rows of a batch are dropped depends on the rows of that batch
\* only: every worker's arguments are those the dedup filter yields from its
\* own batch, and a row whose Duplicate Key no earlier row of the same batch
\* has is kept, whatever the earlier batches held. (A worker's statement and
\* arguments are fixed when it is started, so each worker is looked at
\* while it is at its first statement.)
C17_DedupPerBatch ==
    \A w \in DOMAIN workers :
        workers[w].pc = "insert" =>
            LET batch == BatchRows(w - 1)
                kept == Survivors(batch)
            IN  /\ workers[w].args = Flatten(SelectRows(batch, kept, 1))
                /\ NumGroups(workers[w].query) = Cardinality(kept)
                /\ FirstOfKey(batch) \subseteq kept

\* C17 witness: with squash-all and batches of two, the batch [1,x],[1,x]
\* follows a batch that ended with [1,x]: its first row is kept and its
\* second row is dropped
C17_Witness ==
    /\ c.SquashAllDupsPerBulk
    /\ c.Bulk = 2
    /\ \E w \in DOMAIN workers :
         /\ w > 2
         /\ BatchRows(w - 2)[2] = <<"1", "x">>
         /\ BatchRows(w - 1) = <<(<<"1", "x">>), (<<"1", "x">>)>>
         /\ workers[w].pc = "insert"
         /\ workers[w].args = <<"1", "x">>
         /\ NumGroups(workers[w].query) = 1

\* C18: every statement handed to an insert worker has at least one value
\* group, under each combination of the squash flags.
C18_NoEmptyStatement ==
    \A w \in DOMAIN workers : NumGroups(workers[w].query) >= 1

\* C18 witness: with both squash flags, a worker has run the statement of a
\* batch of two equal rows, which has one value group
C18_Witness ==
    /\ c.SquashAllDupsPerBulk
    /\ c.SquashConsecutiveDups
    /\ \E w \in DOMAIN workers :
         /\ Len(BatchRows(w - 1)) = 2
         /\ BatchRows(w - 1)[1] = BatchRows(w - 1)[2]
         /\ workers[w].pc = "finished"
         /\ NumGroups(workers[w].query) = 1

\* the tokens of statement q after the VALUES keyword
AfterValues(q) ==
    LET v == CHOOSE i \in 1..Len(q) : q[i] = ValuesKw
    IN  SubSeq(q, v + 1, Len(q))

\* C19: after VALUES the statement is a comma-joined list of groups
\* ( ?, ..., ? ): the first token is "(", and no comma stands directly
\* before ")" or directly after "(".
C19_GroupsCommaJoined ==
    pc = "parsed" =>
      LET t == AfterValues(bulkQuery) IN
      /\ t /= <<>> => t[1] = "("
      /\ \A i \in 1..(Len(t) - 1) :
           /\ ~(t[i] = "," /\ t[i + 1] = ")")
           /\ ~(t[i] = "(" /\ t[i + 1] = ",")

\* completions the controller has received whose permit it has not yet put back
InController ==
    IF ctl.pc \in {"insertions", "conn_load", "conn_store", "release"} THEN 1 ELSE 0

\* workers started whose completion the controller has not yet received
Unreceived == Cardinality({w \in DOMAIN workers : workers[w].pc \in {"insert", "send"}})

\* the process runs and the permits have been put into `available`
Running == Started /\ pc /= "fatal"

\* C20 as stated: permits buffered in `available` + workers dispatched whose
\* completion has not been received + completions received whose permit has
\* not been put back = Concurrency, in every state.
C20_ThreeTerms ==
    Running => available + Unreceived + InController = c.Concurrency

\* C20 as amended: the sum also counts the permit the driver has received
\* at `<-available` for the worker it has not yet started; with it the sum
\* is Concurrency in every state, the channel never holds more than
\* Concurrency permits and the controller's send finds room.
C20_PermitConservation ==
    Running =>
      /\ available + Held + InController = c.Concurrency
      /\ available <= c.Concurrency
      /\ ctl.pc = "release" => available + PermitsBack <= c.Concurrency

\* C20 witness: with two permits, one is buffered, one is held by the driver
\* for a worker not yet started, and the controller is not in a pass
C20_Witness ==
    /\ c.Concurrency = 2
    /\ pc = "spawn"
    /\ available = 1
    /\ Unreceived = 0
    /\ InController = 0
    /\ \E w \in DOMAIN workers : workers[w].released = 1

====
